---- MODULE Spec2Model ----
(***************************************************************************)
(* A model of the path tracer of ravi4k/raytracing-rust.                   *)
(*                                                                         *)
(*   Spec          main(): BVH build, spawn of the NTHREADS workers,       *)
(*                 process_block on each worker, join, assembly, save      *)
(*   SpecBlocks    main()'s partition of the rows into blocks, for every   *)
(*                 image height and thread count                           *)
(*   SpecRayColor  the activations of the recursive ray_color              *)
(*   SpecRay       Ray::at_distance and the vector arithmetic under it     *)
(*                                                                         *)
(* f32 values are modelled by integers: coordinates by small integers (on  *)
(* which f32 arithmetic is exact), colour channels in hundredths.          *)
(***************************************************************************)
EXTENDS Integers, Sequences, FiniteSets, TLC

\* ------------------------------------------------------------------ bounds
\* Pipeline (Spec): the largest NTHREADS, IMAGE_HEIGHT and IMAGE_WIDTH tried.
MaxThreads == 3
MaxHeight == 3
MaxWidth == 1
\* Partition (SpecBlocks): the largest NTHREADS and IMAGE_HEIGHT tried.
PartMaxThreads == 4
PartMaxHeight == 9
\* ray_color (SpecRayColor): the largest depth of the top-level call.
MaxDepth == 3
\* at_distance (SpecRay): the largest absolute value of a coordinate and of
\* the distance.
MaxCoord == 1

Coords == (0 - MaxCoord) .. MaxCoord

Vectors == [x : Coords, y : Coords, z : Coords]

\* The times a ray is cast at: the camera's shutter opens at 0.0 and closes
\* at 1.0 (main.rs:213-214).
Times == {0, 1}

\* An Rgb<u8> pixel, as produced by Color::get_pixel: the pipeline never looks
\* at a pixel's value, so the two extreme values of a channel stand for all.
Pixels == {0, 255}

VARIABLES
    \* ---- main()
    image_height,   \* IMAGE_HEIGHT
    image_width,    \* IMAGE_WIDTH
    nthreads,       \* NTHREADS
    main_pc,        \* main's position: "bvh", "spawn", "join", "lock",
                    \* "assemble", "save", "done", "failed" (main panicked)
    world_built,    \* BVHNode::create_tree has returned
    spawn_i,        \* the spawn loop's i = threads.len()
    join_i,         \* number of handles joined so far
    asm_k,          \* number of blocks of final_blocks already placed
    img_buf,        \* img_buf[v][u], rows 0..H-1, columns 0..W-1
    put_count,      \* how many times put_pixel wrote (u, v)
    saved,          \* render.png has been written
    fail_cause,     \* why main panicked: "none", "join", "poison",
                    \* "put_pixel", "save"
    \* ---- the worker threads, indexed 0..NTHREADS-1
    thr_pc,         \* "unspawned", "render", "locked", "done", "panicked"
    block_info,     \* the ImageBlockInfo a worker owns (NoBlock once moved)
    row_j,          \* process_block's loop variable j
    lock_count,     \* how many times the worker acquired the mutex
    \* ---- Arc<Mutex<Vec<ImageBlockInfo>>>
    mutex_holders,  \* the threads inside the mutex (main is thread NTHREADS)
    poisoned,       \* a thread panicked while holding the guard
    image_blocks,   \* the Vec behind the mutex, in arrival order
    \* ---- ray_color
    rc_depth,       \* the depth of the top-level call
    rc_stack,       \* the activations, outermost first
    rc_result,      \* what the top-level call returned (NoColor before)
    rc_activations, \* number of activations entered so far
    \* ---- Ray::at_distance
    ray,            \* the Ray {origin, direction}
    distance,       \* the argument
    ray_pc,         \* "call" or "returned"
    point           \* the Point returned

vars == <<image_height, image_width, nthreads, main_pc, world_built, spawn_i,
          join_i, asm_k, img_buf, put_count, saved, fail_cause, thr_pc,
          block_info, row_j, lock_count, mutex_holders, poisoned, image_blocks,
          rc_depth, rc_stack, rc_result, rc_activations,
          ray, distance, ray_pc, point>>

mainVars == <<image_height, image_width, nthreads, main_pc, world_built,
              spawn_i, join_i, asm_k, img_buf, put_count, saved, fail_cause,
              thr_pc, block_info, row_j, lock_count, mutex_holders, poisoned,
              image_blocks>>
rcVars == <<rc_depth, rc_stack, rc_result, rc_activations>>
rayVars == <<ray, distance, ray_pc, point>>

\* ------------------------------------------------------------ the blocks

\* The value left in a worker's slot once its ImageBlockInfo has been moved
\* into the shared Vec (or before the worker exists).
NoBlock == [start_row |-> 0, end_row |-> 0, image_height |-> 0,
            image_width |-> 0, image_block |-> <<>>, rendered_rows |-> <<>>]

Workers == 0 .. (nthreads - 1)

\* Thread id of main in mutex_holders.
MainThread == nthreads

\* main.rs:227
BlockSize(H, N) == H \div N

\* main.rs:228
EndBlockSize(H, N) == BlockSize(H, N) + (H % N)

\* A slip in the last block's size: the remainder rows are dropped.
NewBlock_NoRemainder(i, H, W, N) ==
    [start_row |-> i * BlockSize(H, N),
     end_row |-> i * BlockSize(H, N) + BlockSize(H, N),
     image_height |-> H, image_width |-> W,
     image_block |-> <<>>, rendered_rows |-> <<>>]

\* main.rs:231-239, the ImageBlockInfo of thread i. spp and max_depth only
\* parametrise the colour of a pixel and are left out; rendered_rows records,
\* for each row of image_block, the j it was rendered for.
NewBlock(i, H, W, N) ==
    [start_row |-> i * BlockSize(H, N),
     end_row |-> i * BlockSize(H, N)
                   + (IF i = N - 1 THEN EndBlockSize(H, N) ELSE BlockSize(H, N)),
     image_height |-> H, image_width |-> W,
     image_block |-> <<>>, rendered_rows |-> <<>>]

\* ------------------------------------------------------------------ main

ProcessAlive == main_pc \notin {"done", "failed"}

\* main.rs:219
BuildBVH ==
    /\ main_pc = "bvh"
    /\ world_built' = TRUE
    /\ main_pc' = "spawn"
    /\ UNCHANGED <<image_height, image_width, nthreads, spawn_i, join_i,
                   asm_k, img_buf, put_count, saved, fail_cause, thr_pc,
                   block_info, row_j, lock_count, mutex_holders, poisoned,
                   image_blocks>>
    /\ UNCHANGED <<rcVars, rayVars>>

\* main.rs:230-249, one iteration of the spawn loop: the block is built and
\* moved into the new thread, which starts process_block at j = start_row.
Spawn ==
    /\ main_pc = "spawn"
    /\ spawn_i < nthreads
    /\ LET b == NewBlock(spawn_i, image_height, image_width, nthreads)
       IN  /\ block_info' = [block_info EXCEPT ![spawn_i] = b]
           /\ row_j' = [row_j EXCEPT ![spawn_i] = b.start_row]
    /\ thr_pc' = [thr_pc EXCEPT ![spawn_i] = "render"]
    /\ spawn_i' = spawn_i + 1
    /\ main_pc' = IF spawn_i + 1 = nthreads THEN "join" ELSE "spawn"
    /\ UNCHANGED <<image_height, image_width, nthreads, world_built, join_i,
                   asm_k, img_buf, put_count, saved, fail_cause, lock_count,
                   mutex_holders, poisoned, image_blocks>>
    /\ UNCHANGED <<rcVars, rayVars>>

\* A join that returns before the thread has ended.
Joinable_NoWait(i) == TRUE

\* main.rs:252, JoinHandle::join blocks until the thread has terminated.
Joinable(i) == thr_pc[i] \in {"done", "panicked"}

\* A join whose Result is dropped instead of unwrapped.
JoinPanics_Ignored(i) == FALSE

\* main.rs:252, join() is Err when the thread panicked, and unwrap panics.
JoinPanics(i) == thr_pc[i] = "panicked"

\* main.rs:251-253, one iteration of the join loop.
Join ==
    /\ main_pc = "join"
    /\ join_i < nthreads
    /\ Joinable(join_i)
    /\ IF JoinPanics(join_i)
       THEN /\ main_pc' = "failed"
            /\ fail_cause' = "join"
            /\ UNCHANGED join_i
       ELSE /\ join_i' = join_i + 1
            /\ main_pc' = IF join_i + 1 = nthreads THEN "lock" ELSE "join"
            /\ UNCHANGED fail_cause
    /\ UNCHANGED <<image_height, image_width, nthreads, world_built, spawn_i,
                   asm_k, img_buf, put_count, saved, thr_pc, block_info,
                   row_j, lock_count, mutex_holders, poisoned, image_blocks>>
    /\ UNCHANGED <<rcVars, rayVars>>

\* A lock that does not exclude.
LockAvailable_NoMutex == TRUE

\* main.rs:184 and 255, Mutex::lock blocks while another thread holds the guard.
LockAvailable == mutex_holders = {}

\* main.rs:255-256, lock().unwrap() panics on a poisoned mutex; the guard then
\* lives to the end of main.
MainLock ==
    /\ main_pc = "lock"
    /\ LockAvailable
    /\ IF poisoned
       THEN /\ main_pc' = "failed"
            /\ fail_cause' = "poison"
            /\ UNCHANGED <<mutex_holders, asm_k>>
       ELSE /\ mutex_holders' = mutex_holders \cup {MainThread}
            /\ asm_k' = 0
            /\ main_pc' = IF Len(image_blocks) = 0 THEN "save" ELSE "assemble"
            /\ UNCHANGED fail_cause
    /\ UNCHANGED <<image_height, image_width, nthreads, world_built, spawn_i,
                   join_i, img_buf, put_count, saved, thr_pc, block_info,
                   row_j, lock_count, poisoned, image_blocks>>
    /\ UNCHANGED <<rcVars, rayVars>>

\* Placement by the order of arrival in the Vec instead of the recorded row.
PlacedRow_ByArrival(block, k, y) == k * BlockSize(image_height, nthreads) + y

\* main.rs:262, the image row that row y of a block is written to; k is the
\* block's index in final_blocks.
PlacedRow(block, k, y) == block.start_row + y

\* main.rs:259-265, the put_pixel calls made for one block: <<u, v, pixel>>
\* for y in 0..image_block.len() and x in 0..image_block[0].len().
BlockWrites(block, k) ==
    IF Len(block.image_block) = 0
    THEN {}
    ELSE { <<x, PlacedRow(block, k, y), block.image_block[y + 1][x + 1]>> :
             y \in { yy \in 0 .. (Len(block.image_block) - 1) :
                       Len(block.image_block[yy + 1]) >= Len(block.image_block[1]) },
             x \in 0 .. (Len(block.image_block[1]) - 1) }

\* main.rs:263, image_block[y][x] panics when row y is shorter than row 0, and
\* ImageBuffer::put_pixel panics outside the buffer's bounds.
BlockPanics(block, k) ==
    \/ \E y \in 1 .. Len(block.image_block) :
           Len(block.image_block[y]) < Len(block.image_block[1])
    \/ \E w \in BlockWrites(block, k) :
           w[1] >= image_width \/ w[2] >= image_height

\* main.rs:258-266, one iteration of the loop over final_blocks.
AssembleBlock ==
    /\ main_pc = "assemble"
    /\ asm_k < Len(image_blocks)
    /\ LET block == image_blocks[asm_k + 1]
           ws == BlockWrites(block, asm_k)
       IN  IF BlockPanics(block, asm_k)
           THEN /\ main_pc' = "failed"
                /\ fail_cause' = "put_pixel"
                /\ UNCHANGED <<asm_k, img_buf, put_count>>
           ELSE /\ img_buf' =
                     [v \in DOMAIN img_buf |->
                        [u \in DOMAIN img_buf[v] |->
                           IF \E w \in ws : w[1] = u /\ w[2] = v
                           THEN (CHOOSE w \in ws : w[1] = u /\ w[2] = v)[3]
                           ELSE img_buf[v][u]]]
                /\ put_count' =
                     [v \in DOMAIN put_count |->
                        [u \in DOMAIN put_count[v] |->
                           put_count[v][u]
                             + Cardinality({w \in ws : w[1] = u /\ w[2] = v})]]
                /\ asm_k' = asm_k + 1
                /\ main_pc' = IF asm_k + 1 = Len(image_blocks)
                              THEN "save" ELSE "assemble"
                /\ UNCHANGED fail_cause
    /\ UNCHANGED <<image_height, image_width, nthreads, world_built, spawn_i,
                   join_i, saved, thr_pc, block_info, row_j, lock_count,
                   mutex_holders, poisoned, image_blocks>>
    /\ UNCHANGED <<rcVars, rayVars>>

\* main.rs:267, img_buf.save("render.png").unwrap(): the file is written, or
\* the encoder's error makes main panic.
Save ==
    /\ main_pc = "save"
    /\ \E ok \in BOOLEAN :
          /\ saved' = ok
          /\ main_pc' = IF ok THEN "done" ELSE "failed"
          /\ fail_cause' = IF ok THEN fail_cause ELSE "save"
    /\ UNCHANGED <<image_height, image_width, nthreads, world_built, spawn_i,
                   join_i, asm_k, img_buf, put_count, thr_pc, block_info,
                   row_j, lock_count, mutex_holders, poisoned, image_blocks>>
    /\ UNCHANGED <<rcVars, rayVars>>

\* --------------------------------------------------------- process_block

\* A row loop that stops one pixel short.
RenderedRows_Short(W) == IF W = 0 THEN {<<>>} ELSE [1 .. (W - 1) -> Pixels]

\* main.rs:169-180, the rows the inner loop can build: one pixel pushed for
\* each i in 0..image_width. A pixel is the quantised average of spp calls of
\* ray_color on random rays, so any value can come out.
RenderedRows(W) == [1 .. W -> Pixels]

\* main.rs:168-182, one iteration of the loop over j: the row is rendered and
\* pushed to the block's buffer.
RenderRow(w) ==
    /\ ProcessAlive
    /\ thr_pc[w] = "render"
    /\ row_j[w] < block_info[w].end_row
    /\ \E row \in RenderedRows(block_info[w].image_width) :
          block_info' = [block_info EXCEPT
              ![w].image_block = Append(@, row),
              ![w].rendered_rows = Append(@, row_j[w])]
    /\ row_j' = [row_j EXCEPT ![w] = @ + 1]
    /\ UNCHANGED <<image_height, image_width, nthreads, main_pc, world_built,
                   spawn_i, join_i, asm_k, img_buf, put_count, saved,
                   fail_cause, thr_pc, lock_count, mutex_holders, poisoned,
                   image_blocks>>
    /\ UNCHANGED <<rcVars, rayVars>>

\* main.rs:184, image_blocks.lock().unwrap() once the loop over j has ended:
\* the thread waits for the mutex, and panics if it is poisoned (the guard
\* inside the error is dropped at once).
Lock(w) ==
    /\ ProcessAlive
    /\ thr_pc[w] = "render"
    /\ ~(row_j[w] < block_info[w].end_row)
    /\ LockAvailable
    /\ lock_count' = [lock_count EXCEPT ![w] = @ + 1]
    /\ IF poisoned
       THEN /\ thr_pc' = [thr_pc EXCEPT ![w] = "panicked"]
            /\ UNCHANGED mutex_holders
       ELSE /\ thr_pc' = [thr_pc EXCEPT ![w] = "locked"]
            /\ mutex_holders' = mutex_holders \cup {w}
    /\ UNCHANGED <<image_height, image_width, nthreads, main_pc, world_built,
                   spawn_i, join_i, asm_k, img_buf, put_count, saved,
                   fail_cause, block_info, row_j, poisoned, image_blocks>>
    /\ UNCHANGED <<rcVars, rayVars>>

\* main.rs:185-186, the block is moved into the Vec and the guard is dropped
\* as process_block returns.
Push(w) ==
    /\ ProcessAlive
    /\ thr_pc[w] = "locked"
    /\ image_blocks' = Append(image_blocks, block_info[w])
    /\ block_info' = [block_info EXCEPT ![w] = NoBlock]
    /\ mutex_holders' = mutex_holders \ {w}
    /\ thr_pc' = [thr_pc EXCEPT ![w] = "done"]
    /\ UNCHANGED <<image_height, image_width, nthreads, main_pc, world_built,
                   spawn_i, join_i, asm_k, img_buf, put_count, saved,
                   fail_cause, row_j, lock_count, poisoned>>
    /\ UNCHANGED <<rcVars, rayVars>>

\* main.rs:167-186, a panic inside process_block, while rendering or while
\* holding the guard (which poisons the mutex and releases it). Unwinding
\* drops the thread's block_info.
Panic(w) ==
    /\ ProcessAlive
    /\ thr_pc[w] \in {"render", "locked"}
    /\ thr_pc' = [thr_pc EXCEPT ![w] = "panicked"]
    /\ poisoned' = (poisoned \/ thr_pc[w] = "locked")
    /\ mutex_holders' = mutex_holders \ {w}
    /\ block_info' = [block_info EXCEPT ![w] = NoBlock]
    /\ UNCHANGED <<image_height, image_width, nthreads, main_pc, world_built,
                   spawn_i, join_i, asm_k, img_buf, put_count, saved,
                   fail_cause, row_j, lock_count, image_blocks>>
    /\ UNCHANGED <<rcVars, rayVars>>

\* -------------------------------------------------------------- ray_color

\* A Color {r, g, b} is <<r, g, b>>, each channel in hundredths.
BLACK == <<0, 0, 0>>

\* The value of rc_result while the top-level call has not returned.
NoColor == <<>>

\* Color * Color, componentwise (geometry::color, used at main.rs:44).
ColorMul(a, b) ==
    <<(a[1] * b[1]) \div 100, (a[2] * b[2]) \div 100, (a[3] * b[3]) \div 100>>

\* The y of the ray's unit direction on a miss, in hundredths: down, level, up.
DirYs == {-100, 0, 100}

\* main.rs:47-48, the background: (1 - t) * white + t * (0.5, 0.7, 1.0) with
\* t = 0.5 * (direction.y + 1).
Background(y) ==
    LET t == (y + 100) \div 2
    IN  <<(100 - t) + (t * 50) \div 100,
          (100 - t) + (t * 70) \div 100,
          (100 - t) + (t * 100) \div 100>>

\* main.rs:132-136 and 145-149, colours of the scene's surfaces.
Albedos == {<<40, 20, 10>>, <<70, 60, 50>>}

\* materials/material.rs:16-18, Material::scatter returns an Option: "none"
\* (the trait's default) or "some".
ScatterOutcomes == {"none", "some"}

\* materials/material.rs:22-24, Material::emitted: the default material emits
\* black.
Emitted == BLACK

\* A depth-0 call that returns white instead of black.
ExhaustedColor_White == <<100, 100, 100>>

\* main.rs:30-36, what ray_color returns when depth == 0.
ExhaustedColor == BLACK

\* A recursive call that passes its own depth on.
NextDepth_Same(depth) == depth

\* main.rs:44, the depth of the recursive call.
NextDepth(depth) == depth - 1

\* An activation of ray_color: its depth argument, where it is ("call": at its
\* entry, "wait": inside the recursive call of line 44, "ret": returning
\* value), whether it queried world.hit, and, after a hit, the surface's
\* colour and what the material's scatter gives for it.
Frame(depth) ==
    [depth |-> depth, stage |-> "call", queried |-> FALSE, hit |-> FALSE,
     color |-> BLACK, scatter |-> "n/a", value |-> BLACK]

\* main.rs:38-43, what world.hit and the surface hit can give: a miss with the
\* ray's direction.y, or a hit with the surface's colour (object.color) and
\* what the material's scatter gives there. ray_color itself uses the
\* scattered ray without testing for a missing one.
HitOutcomes ==
    [hit : {FALSE}, y : DirYs, color : {BLACK}, scatter : {"n/a"}]
      \cup [hit : {TRUE}, y : {0}, color : Albedos, scatter : ScatterOutcomes]

Top == rc_stack[Len(rc_stack)]

SetTop(f) == [rc_stack EXCEPT ![Len(rc_stack)] = f]

\* main.rs:29-49, an activation from its entry up to its return or up to the
\* recursive call: on a hit the code recurses whatever the material's scatter
\* gave, with the surface's colour as the factor.
RayColorCall ==
    /\ Len(rc_stack) > 0
    /\ Top.stage = "call"
    /\ IF Top.depth = 0
       THEN /\ rc_stack' = SetTop([Top EXCEPT !.stage = "ret",
                                              !.value = ExhaustedColor])
            /\ UNCHANGED rc_activations
       ELSE \E o \in HitOutcomes :
              IF o.hit
              THEN /\ rc_stack' =
                        Append(SetTop([Top EXCEPT !.stage = "wait",
                                                  !.queried = TRUE,
                                                  !.hit = TRUE,
                                                  !.color = o.color,
                                                  !.scatter = o.scatter]),
                               Frame(NextDepth(Top.depth)))
                   /\ rc_activations' = rc_activations + 1
              ELSE /\ rc_stack' = SetTop([Top EXCEPT !.stage = "ret",
                                                     !.queried = TRUE,
                                                     !.value = Background(o.y)])
                   /\ UNCHANGED rc_activations
    /\ UNCHANGED <<rc_depth, rc_result>>
    /\ UNCHANGED <<mainVars, rayVars>>

\* main.rs:44, an activation returns: to its caller, which multiplies the
\* value by the surface's colour and returns in turn, or out of the top-level
\* call.
RayColorReturn ==
    /\ Len(rc_stack) > 0
    /\ Top.stage = "ret"
    /\ IF Len(rc_stack) = 1
       THEN /\ rc_result' = Top.value
            /\ rc_stack' = <<>>
       ELSE LET caller == rc_stack[Len(rc_stack) - 1]
            IN  /\ rc_stack' =
                     [SubSeq(rc_stack, 1, Len(rc_stack) - 1)
                        EXCEPT ![Len(rc_stack) - 1] =
                          [caller EXCEPT !.stage = "ret",
                                         !.value = ColorMul(caller.color, Top.value)]]
                /\ UNCHANGED rc_result
    /\ UNCHANGED <<rc_depth, rc_activations>>
    /\ UNCHANGED <<mainVars, rayVars>>

\* ------------------------------------------------------- Ray::at_distance

\* A Vector3 (and a Point, its alias: geometry/vector.rs:108).
Vector3(x, y, z) == [x |-> x, y |-> y, z |-> z]

ZeroVector == Vector3(0, 0, 0)

\* geometry/vector.rs:48-54, impl Add for Vector3.
VecAdd(a, b) == Vector3(a.x + b.x, a.y + b.y, a.z + b.z)

\* geometry/vector.rs:92-98, impl Mul<Vector3> for f32: every component of
\* the result is self * _rhs.x.
ScalarMul(s, v) == Vector3(s * v.x, s * v.x, s * v.x)

\* geometry/ray.rs:10-12
at_distance(r, d) == VecAdd(r.origin, ScalarMul(d, r.direction))

\* geometry/ray.rs:9-13, the call of at_distance on the ray.
AtDistanceCall ==
    /\ ray_pc = "call"
    /\ point' = at_distance(ray, distance)
    /\ ray_pc' = "returned"
    /\ UNCHANGED <<ray, distance>>
    /\ UNCHANGED <<mainVars, rcVars>>

\* ------------------------------------------------- idle parts of a spec

RcIdle ==
    /\ rc_depth = 0
    /\ rc_stack = <<>>
    /\ rc_result = NoColor
    /\ rc_activations = 0

RayIdle ==
    /\ ray = [origin |-> ZeroVector, direction |-> ZeroVector, time |-> 0]
    /\ distance = 0
    /\ ray_pc = "idle"
    /\ point = ZeroVector

MainIdle ==
    /\ image_height = 0
    /\ image_width = 0
    /\ nthreads = 0
    /\ main_pc = "idle"
    /\ world_built = FALSE
    /\ spawn_i = 0
    /\ join_i = 0
    /\ asm_k = 0
    /\ img_buf = <<>>
    /\ put_count = <<>>
    /\ saved = FALSE
    /\ fail_cause = "none"
    /\ thr_pc = <<>>
    /\ block_info = <<>>
    /\ row_j = <<>>
    /\ lock_count = <<>>
    /\ mutex_holders = {}
    /\ poisoned = FALSE
    /\ image_blocks = <<>>

\* --------------------------------------------------------- specifications

\* The state main() starts the pipeline in, for image dimensions H x W and N
\* threads: ImageBuffer::new gives a zeroed buffer.
MainInit(H, W, N) ==
    /\ image_height = H
    /\ image_width = W
    /\ nthreads = N
    /\ main_pc = "bvh"
    /\ world_built = FALSE
    /\ spawn_i = 0
    /\ join_i = 0
    /\ asm_k = 0
    /\ img_buf = [v \in 0 .. (H - 1) |-> [u \in 0 .. (W - 1) |-> 0]]
    /\ put_count = [v \in 0 .. (H - 1) |-> [u \in 0 .. (W - 1) |-> 0]]
    /\ saved = FALSE
    /\ fail_cause = "none"
    /\ thr_pc = [w \in 0 .. (N - 1) |-> "unspawned"]
    /\ block_info = [w \in 0 .. (N - 1) |-> NoBlock]
    /\ row_j = [w \in 0 .. (N - 1) |-> 0]
    /\ lock_count = [w \in 0 .. (N - 1) |-> 0]
    /\ mutex_holders = {}
    /\ poisoned = FALSE
    /\ image_blocks = <<>>

\* The program has IMAGE_HEIGHT = 800 and NTHREADS = 8 (main.rs:191, 223):
\* every thread gets at least one row. The pipeline is checked for every N up
\* to MaxThreads and every H from N up to MaxHeight.
Init ==
    /\ \E N \in 1 .. MaxThreads :
         \E H \in N .. MaxHeight :
           \E W \in 1 .. MaxWidth : MainInit(H, W, N)
    /\ RcIdle
    /\ RayIdle

Next ==
    \/ BuildBVH
    \/ Spawn
    \/ Join
    \/ MainLock
    \/ AssembleBlock
    \/ Save
    \/ \E w \in Workers : RenderRow(w)
    \/ \E w \in Workers : Lock(w)
    \/ \E w \in Workers : Push(w)
    \/ \E w \in Workers : Panic(w)

Spec == Init /\ [][Next]_vars

\* main()'s partition alone, for every height from 0 and every thread count
\* from 1.
InitBlocks ==
    /\ \E N \in 1 .. PartMaxThreads :
         \E H \in 0 .. PartMaxHeight : MainInit(H, 1, N)
    /\ RcIdle
    /\ RayIdle

NextBlocks ==
    \/ BuildBVH
    \/ Spawn

SpecBlocks == InitBlocks /\ [][NextBlocks]_vars

\* ray_color called with every depth up to MaxDepth, on any ray and scene.
InitRayColor ==
    /\ rc_depth \in 0 .. MaxDepth
    /\ rc_stack = <<Frame(rc_depth)>>
    /\ rc_result = NoColor
    /\ rc_activations = 1
    /\ MainIdle
    /\ RayIdle

NextRayColor ==
    \/ RayColorCall
    \/ RayColorReturn

SpecRayColor == InitRayColor /\ [][NextRayColor]_vars

\* at_distance called on every ray and distance with coordinates up to
\* MaxCoord in absolute value.
InitRay ==
    /\ ray \in [origin : Vectors, direction : Vectors, time : Times]
    /\ distance \in Coords
    /\ ray_pc = "call"
    /\ point = ZeroVector
    /\ MainIdle
    /\ RcIdle

NextRay == AtDistanceCall

SpecRay == InitRay /\ [][NextRay]_vars

\* ------------------------------------------------------------ properties

Terminated(w) == thr_pc[w] \in {"done", "panicked"}

AssemblyComplete == main_pc \in {"save", "done"} \/ fail_cause = "save"

\* Row y (from 0) of a block as a row of the image buffer holds it.
RowAt(block, y) ==
    [u \in 0 .. (image_width - 1) |-> block.image_block[y + 1][u + 1]]

\* C1: whatever the order in which the workers appended their blocks, once
\* the assembly is complete every block of every worker is in the collection
\* and, for each block and each row index y of it, row start_row + y of the
\* final image holds exactly the block's row y.
C1_PlacementByStartRow ==
    AssemblyComplete =>
      /\ Len(image_blocks) = nthreads
      /\ \A k \in 1 .. Len(image_blocks) :
           \A y \in 0 .. (Len(image_blocks[k].image_block) - 1) :
             /\ image_blocks[k].start_row + y \in DOMAIN img_buf
             /\ img_buf[image_blocks[k].start_row + y] = RowAt(image_blocks[k], y)

\* The image is complete, the blocks arrived in another order than they were
\* spawned in, and the first two rows of the image differ.
C1_Witness ==
    /\ main_pc = "done"
    /\ Len(image_blocks) >= 2
    /\ image_blocks[1].start_row > image_blocks[2].start_row
    /\ img_buf[0] # img_buf[1]

BlockRows(b) == b.start_row .. (b.end_row - 1)

\* C2: for every height H >= 0 and thread count N >= 1, once main has created
\* the N blocks they are contiguous, pairwise disjoint row ranges whose union
\* is [0, H): blocks 0..N-2 have H div N rows, the last one has
\* (H div N) + (H mod N) rows and ends at row H.
C2_BlocksPartitionRows ==
    (main_pc = "join" /\ spawn_i = nthreads) =>
      /\ block_info[0].start_row = 0
      /\ block_info[nthreads - 1].end_row = image_height
      /\ \A i \in Workers :
           /\ block_info[i].start_row <= block_info[i].end_row
           /\ i < nthreads - 1 =>
                /\ Cardinality(BlockRows(block_info[i])) = image_height \div nthreads
                /\ block_info[i].end_row = block_info[i + 1].start_row
           /\ i = nthreads - 1 =>
                Cardinality(BlockRows(block_info[i]))
                  = (image_height \div nthreads) + (image_height % nthreads)
      /\ \A i, j \in Workers :
           i # j => BlockRows(block_info[i]) \cap BlockRows(block_info[j]) = {}
      /\ UNION { BlockRows(block_info[i]) : i \in Workers } = 0 .. (image_height - 1)

\* All blocks are created, for a height that the thread count does not
\* divide, with several threads.
C2_Witness ==
    /\ main_pc = "join"
    /\ spawn_i = nthreads
    /\ nthreads >= 3
    /\ image_height % nthreads >= 2
    /\ image_height > nthreads

\* C3: each worker acquires the mutex at most once, and only after it has
\* rendered all of its rows; a worker that holds it or has returned acquired
\* it exactly once; at most one thread is inside the mutex; each returned
\* worker has appended exactly one block; and once all N workers have
\* returned the collection holds N blocks with N distinct start rows.
C3_OneLockPerWorker ==
    /\ \A w \in Workers :
         /\ lock_count[w] <= 1
         /\ thr_pc[w] \in {"locked", "done"} => lock_count[w] = 1
         /\ lock_count[w] >= 1 =>
              row_j[w] = NewBlock(w, image_height, image_width, nthreads).end_row
         /\ thr_pc[w] = "locked" =>
              Len(block_info[w].image_block)
                = block_info[w].end_row - block_info[w].start_row
    /\ Cardinality(mutex_holders) <= 1
    /\ mutex_holders \cap Workers = {w \in Workers : thr_pc[w] = "locked"}
    /\ Len(image_blocks) = Cardinality({w \in Workers : thr_pc[w] = "done"})
    /\ (\A w \in Workers : thr_pc[w] = "done") =>
         /\ Len(image_blocks) = nthreads
         /\ Cardinality({image_blocks[k].start_row : k \in 1 .. Len(image_blocks)})
              = nthreads

\* Several workers, all returned, main still waiting to join them.
C3_Witness ==
    /\ nthreads >= 2
    /\ \A w \in Workers : thr_pc[w] = "done"
    /\ main_pc = "join"
    /\ join_i = 0

AssemblyStarted ==
    \/ main_pc \in {"assemble", "save", "done"}
    \/ fail_cause \in {"poison", "put_pixel", "save"}
    \/ MainThread \in mutex_holders

\* C4: a thread exists only once BVHNode::create_tree has returned, and main
\* locks the collection and writes pixels only once every one of the N
\* workers has terminated and been joined.
C4_PhasesOrdered ==
    /\ (\E w \in Workers : thr_pc[w] # "unspawned") => world_built
    /\ spawn_i > 0 => world_built
    /\ (AssemblyStarted \/ main_pc = "lock") =>
         /\ join_i = nthreads
         /\ \A w \in Workers : Terminated(w)
    /\ (\E v \in DOMAIN put_count : \E u \in DOMAIN put_count[v] :
          put_count[v][u] > 0) => AssemblyStarted

\* Main is placing the blocks of several workers.
C4_Witness ==
    /\ main_pc = "assemble"
    /\ asm_k = 1
    /\ nthreads >= 2

SomePanicked == \E w \in Workers : thr_pc[w] = "panicked"

\* C5: if a worker has panicked, while rendering or while holding the guard,
\* main never locks the collection, writes no pixel and no render.png, and does
\* not end in success; and when nothing can run any more, main has failed.
C5_PanicFailsProcess ==
    SomePanicked =>
      /\ ~AssemblyStarted
      /\ main_pc \notin {"assemble", "save", "done"}
      /\ ~saved
      /\ \A v \in DOMAIN put_count : \A u \in DOMAIN put_count[v] :
           put_count[v][u] = 0
      /\ ~(ENABLED Next) => main_pc = "failed"

\* A worker panicked while holding the guard after another had appended its
\* block, and main has failed.
C5_Witness ==
    /\ SomePanicked
    /\ poisoned
    /\ Len(image_blocks) >= 1
    /\ main_pc = "failed"

\* The rows of a block, complete: end_row - start_row rows of image_width
\* pixels each, row y rendered for j = start_row + y.
BlockComplete(b) ==
    /\ Len(b.image_block) = b.end_row - b.start_row
    /\ \A y \in 1 .. Len(b.image_block) : Len(b.image_block[y]) = b.image_width
    /\ b.rendered_rows = [y \in 1 .. Len(b.image_block) |-> b.start_row + y - 1]
    /\ b.image_width = image_width

\* C10: a block that a worker is appending, or has appended, holds exactly
\* end_row - start_row rows of exactly image_width pixels, pushed in
\* increasing row order; the assembly writes a block only at (x, v) with
\* x < image_width and start_row <= v < end_row <= image_height, put_pixel never
\* fails, no pixel is written twice, and once the assembly is complete every
\* pixel of the image has been written exactly once.
C10_BlocksFitImage ==
    /\ \A w \in Workers : thr_pc[w] = "locked" => BlockComplete(block_info[w])
    /\ \A k \in 1 .. Len(image_blocks) :
         /\ BlockComplete(image_blocks[k])
         /\ \A wr \in BlockWrites(image_blocks[k], k - 1) :
              /\ 0 <= wr[1] /\ wr[1] < image_width
              /\ image_blocks[k].start_row <= wr[2]
              /\ wr[2] < image_blocks[k].end_row
              /\ image_blocks[k].end_row <= image_height
    /\ fail_cause # "put_pixel"
    /\ \A v \in DOMAIN put_count : \A u \in DOMAIN put_count[v] :
         /\ put_count[v][u] <= 1
         /\ AssemblyComplete => put_count[v][u] = 1

\* The image is complete, made of several blocks, one of them with several
\* rows, and the first block to arrive is not the image's first.
C10_Witness ==
    /\ main_pc = "done"
    /\ Len(image_blocks) >= 2
    /\ image_blocks[1].start_row > 0
    /\ \E k \in 1 .. Len(image_blocks) : Len(image_blocks[k].image_block) >= 2

\* C6: an activation of ray_color with depth = 0 never queries the scene and
\* never recurses, and returns black; so a top-level call with depth = 0
\* returns black.
C6_DepthZeroIsBlack ==
    /\ \A i \in 1 .. Len(rc_stack) :
         rc_stack[i].depth = 0 =>
           /\ ~rc_stack[i].queried
           /\ rc_stack[i].stage # "wait"
           /\ rc_stack[i].stage = "ret" => rc_stack[i].value = BLACK
    /\ (rc_depth = 0 /\ rc_result # NoColor) => rc_result = BLACK

\* A top-level call with depth = 0 has returned.
C6_Witness ==
    /\ rc_depth = 0
    /\ rc_stack = <<>>
    /\ rc_result = BLACK

RayColorDone == rc_stack = <<>> /\ rc_result # NoColor

\* C7: a top-level call of ray_color with depth d never has more than d
\* recursive calls nested nor more than d + 1 activations in total, each
\* recursive call has the depth of its caller minus one and no depth goes
\* below 0, and the call can always go on until it has returned.
C7_RecursionBounded ==
    /\ rc_activations <= rc_depth + 1
    /\ Len(rc_stack) <= rc_depth + 1
    /\ \A i \in 1 .. Len(rc_stack) :
         /\ rc_stack[i].depth = rc_depth - (i - 1)
         /\ rc_stack[i].depth >= 0
    /\ RayColorDone \/ ENABLED NextRayColor

\* Every ray hit and every hit scattered, down to depth 0, from a depth of at
\* least 2: d + 1 activations are live.
C7_Witness ==
    /\ rc_depth >= 2
    /\ Len(rc_stack) = rc_depth + 1
    /\ rc_activations = rc_depth + 1
    /\ \A i \in 1 .. rc_depth : rc_stack[i].scatter = "some"

\* C8: at_distance(d) on a ray with origin o and direction v returns
\* (o.x + d*v.x, o.y + d*v.y, o.z + d*v.z).
C8_AtDistanceComponentwise ==
    ray_pc = "returned" =>
      point = Vector3(ray.origin.x + distance * ray.direction.x,
                      ray.origin.y + distance * ray.direction.y,
                      ray.origin.z + distance * ray.direction.z)

\* C9: an activation of ray_color that hit a surface whose material produced
\* no scatter makes no recursive call and returns the material's emitted
\* radiance; only an activation whose hit scattered recurses.
C9_NoScatterReturnsEmitted ==
    \A i \in 1 .. Len(rc_stack) :
      (rc_stack[i].hit /\ rc_stack[i].scatter = "none") =>
        /\ rc_stack[i].stage # "wait"
        /\ rc_stack[i].stage = "ret" => rc_stack[i].value = Emitted

====
